---- MODULE Spec2Model ----
(***************************************************************************)
(* Model of add-opt-in.go: the tool that inserts an EnableTelemetry tag    *)
(* into a SWF file.  A file is a sequence of bytes (0..255).  One run of   *)
(* main is a sequence of steps, one action per block of main; the          *)
(* operating system's answers (open, temp file, seek, stat, chmod, rename) *)
(* are chosen by the environment.                                          *)
(***************************************************************************)
EXTENDS Integers, Sequences, FiniteSets, TLC

(* ---------------------------------------------------------------- bounds *)
\* longest list of tags placed before the final End tag of an input file
MaxTags == 3
\* most bytes removed from the end of an input file (a truncated file)
MaxCut == 4
\* largest NBits value of the RECT of an input file
MaxNBits == 1
\* how many times the tool is run on the same path
MaxRuns == 2
MaxLoopTags == 2

(* ------------------------------------------------------------- constants *)
TAG_TELEMETRY == 93
TAG_SIGNED_SWF == 94
TAG_FILE_ATTRIBUTES == 69
TAG_META == 77
TAG_END == 0
LONG_TAG_LENGTH == 63

NO_COMPRESSION == <<70, 87, 83>>      \* "FWS"
ZLIB_COMPRESSION == <<67, 87, 83>>    \* "CWS"
LZMA_COMPRESSION == <<90, 87, 83>>    \* "ZWS"

(* --------------------------------------------------------- byte helpers *)
Min(a, b) == IF a < b THEN a ELSE b

Take(s, n) == SubSeq(s, 1, Min(n, Len(s)))

Drop(s, n) == SubSeq(s, Min(n, Len(s)) + 1, Len(s))

Zeros(n) == [i \in 1..n |-> 0]

\* encoding/binary, LittleEndian: a uint16 as 2 bytes, a uint32 as 4 bytes
LE16(w) == <<w % 256, (w \div 256) % 256>>

LE32(n) == <<n % 256, (n \div 256) % 256, (n \div 65536) % 256, (n \div 16777216) % 256>>

RECURSIVE FromLE(_)
FromLE(b) == IF b = <<>> THEN 0 ELSE b[1] + 256 * FromLE(Tail(b))

\* io.ReadFull(reader, buf) with the error dropped: buf starts zeroed, the
\* bytes the reader still has are copied in, and the reader moves past them.
ReadFull(src, n) ==
    [val  |-> Take(src, n) \o Zeros(n - Min(n, Len(src))),
     rest |-> Drop(src, n),
     ok   |-> Len(src) >= n]

\* binary.Read(reader, LittleEndian, &v) with the error dropped: on a short
\* read the bytes are consumed and v keeps its zero value.
BinaryRead(src, n) ==
    [val  |-> IF Len(src) >= n THEN Take(src, n) ELSE Zeros(n),
     rest |-> Drop(src, n),
     ok   |-> Len(src) >= n]

(* ------------------------------------------------------- tag framing *)
\* One tag as peekTag returns it: tagType, and tagData = every byte put in
\* tagBuffer (the uint16, the uint32 of a long tag, the payload).  rest is the
\* reader after the call; ok is FALSE when some read came up short (the code
\* drops that error).
peekTagDropsLongLength(reader) ==
    LET w == BinaryRead(reader, 2)
        tagCodeAndLength == FromLE(w.val)
        isLong == (tagCodeAndLength % 64) >= LONG_TAG_LENGTH
        l == IF isLong THEN BinaryRead(w.rest, 4)
                       ELSE [val |-> <<>>, rest |-> w.rest, ok |-> TRUE]
        tagLength == IF isLong THEN FromLE(l.val) ELSE tagCodeAndLength % 64
        d == ReadFull(l.rest, tagLength)
    IN [tagType |-> tagCodeAndLength \div 64,
        tagData |-> w.val \o d.val,
        rest    |-> d.rest,
        ok      |-> w.ok /\ l.ok /\ d.ok]

peekTag(reader) ==
    LET w == BinaryRead(reader, 2)
        tagCodeAndLength == FromLE(w.val)
        tagType == tagCodeAndLength \div 64
        shortLength == tagCodeAndLength % 64
        isLong == shortLength >= LONG_TAG_LENGTH
        l == IF isLong THEN BinaryRead(w.rest, 4)
                       ELSE [val |-> <<>>, rest |-> w.rest, ok |-> TRUE]
        tagLength == IF isLong THEN FromLE(l.val) ELSE shortLength
        d == ReadFull(l.rest, tagLength)
    IN [tagType |-> tagType,
        tagData |-> w.val \o l.val \o d.val,
        rest    |-> d.rest,
        ok      |-> w.ok /\ l.ok /\ d.ok]

\* writeTelemetryTag: the bytes written and the amount added to *headerSize.
\* tagLength is the local constant 2, so the long branch is there but dead.
writeTelemetryTagCountsLong ==
    [bytes |-> LE16((TAG_TELEMETRY * 64 + 2) % 65536) \o LE16(0), count |-> 2 + 4 + 2]

writeTelemetryTagLongForm ==
    [bytes |-> LE16((TAG_TELEMETRY * 64 + 63) % 65536) \o LE16(2) \o LE16(0),
     count |-> 2 + 4 + 2]

writeTelemetryTag ==
    LET tagLength == 2
    IN IF tagLength >= LONG_TAG_LENGTH
       THEN [bytes |-> LE16((TAG_TELEMETRY * 64 + 63) % 65536) \o LE16(tagLength) \o LE16(0),
             count |-> 2 + 4 + 2]
       ELSE [bytes |-> LE16((TAG_TELEMETRY * 64 + tagLength) % 65536) \o LE16(0),
             count |-> 2 + 2]

\* a tag handed to writer.Write: copied from the input, or synthesized
Copied(tagType, tagData) == [tagType |-> tagType, tagData |-> tagData, synth |-> FALSE]

Synthesized == [tagType |-> TAG_TELEMETRY, tagData |-> writeTelemetryTag.bytes, synth |-> TRUE]

\* The TAG_FILE_ATTRIBUTES branch of the loop: the writes it makes, in order.
FileAttributesTelemetryFirst(tagData, nextTagType, nextTagData) ==
    <<Copied(TAG_FILE_ATTRIBUTES, tagData), Synthesized, Copied(nextTagType, nextTagData)>>

FileAttributesTelemetryLast(tagData, nextTagType, nextTagData) ==
    <<Copied(TAG_FILE_ATTRIBUTES, tagData), Copied(nextTagType, nextTagData), Synthesized>>

FileAttributesWrites(tagData, nextTagType, nextTagData) ==
    <<Copied(TAG_FILE_ATTRIBUTES, tagData)>>
    \o (IF nextTagType = TAG_META THEN <<Copied(nextTagType, nextTagData)>> ELSE <<>>)
    \o <<Synthesized>>
    \o (IF nextTagType # TAG_META THEN <<Copied(nextTagType, nextTagData)>> ELSE <<>>)

\* The if / else-if chain of the loop on the tag the main scan read.
DispatchCopiesFileAttributes(tagType) ==
    IF tagType = TAG_TELEMETRY THEN "telemetry"
    ELSE IF tagType = TAG_SIGNED_SWF THEN "signed"
    ELSE IF tagType = TAG_END THEN "end"
    ELSE "copy"

\* the dispatch with its End case falling to the default branch
DispatchNeverEnds(tagType) ==
    IF tagType = TAG_TELEMETRY THEN "telemetry"
    ELSE IF tagType = TAG_SIGNED_SWF THEN "signed"
    ELSE IF tagType = TAG_FILE_ATTRIBUTES THEN "file_attributes"
    ELSE "copy"

Dispatch(tagType) ==
    IF tagType = TAG_TELEMETRY THEN "telemetry"
    ELSE IF tagType = TAG_SIGNED_SWF THEN "signed"
    ELSE IF tagType = TAG_FILE_ATTRIBUTES THEN "file_attributes"
    ELSE IF tagType = TAG_END THEN "end"
    ELSE "copy"

\* bytes of the RECT after its first byte
numberOfBytesCountsFirstByte(nBits) == (5 + (nBits * 4) + 7) \div 8

numberOfBytes(nBits) == (7 + (nBits * 4) - 3) \div 8

RECURSIVE Flatten(_)
Flatten(tags) == IF tags = <<>> THEN <<>> ELSE Head(tags).tagData \o Flatten(Tail(tags))

(* ------------------------------------------------------------- zlib *)
\* compress/zlib, as one valid encoding of the format: the 2-byte zlib header,
\* one stored deflate block (final-block byte, LEN, NLEN, the data), and the
\* Adler-32 of the data as 4 big-endian bytes (b, then a).
RECURSIVE Adler32(_, _, _)
Adler32(s, a, b) ==
    IF s = <<>> THEN <<b \div 256, b % 256, a \div 256, a % 256>>
    ELSE LET a2 == (a + s[1]) % 65521 IN Adler32(Tail(s), a2, (b + a2) % 65521)

ZlibEncode(s) ==
    <<120, 1>> \o <<1>> \o LE16(Len(s)) \o LE16(65535 - Len(s)) \o s \o Adler32(s, 1, 0)

\* zlib.NewReader succeeds when the 2 header bytes are there and valid
ZlibHeaderOk(z) == Len(z) >= 2 /\ z[1] % 16 = 8 /\ (z[1] * 256 + z[2]) % 31 = 0

\* the bytes the zlib reader hands out before it ends (with or without error)
ZlibInflate(z) ==
    LET blk == Drop(z, 2)
    IN IF Len(blk) < 5 THEN <<>> ELSE Take(Drop(blk, 5), FromLE(SubSeq(blk, 2, 3)))

(* ------------------------------------------------------ input files *)
\* wire form of one tag: short (length in the low 6 bits) or long (0x3f there,
\* then a uint32 length)
ShortTag(tagType, payload) == LE16(tagType * 64 + Len(payload)) \o payload

LongTag(tagType, payload) == LE16(tagType * 64 + 63) \o LE32(Len(payload)) \o payload

EndTag == ShortTag(TAG_END, <<>>)

\* the tags an input file is built from
TagKinds ==
    { ShortTag(TAG_FILE_ATTRIBUTES, <<8>>),
      ShortTag(TAG_META, <<60>>),
      ShortTag(TAG_TELEMETRY, <<0, 0>>),
      ShortTag(TAG_SIGNED_SWF, <<>>),
      ShortTag(1, <<>>),
      LongTag(9, <<7>>),
      EndTag }

TagLists == UNION { [1..n -> TagKinds] : n \in 0..MaxTags }

RECURSIVE Concat(_)
Concat(ss) == IF ss = <<>> THEN <<>> ELSE Head(ss) \o Concat(Tail(ss))

\* everything after the 8-byte header: RECT, frame rate, frame count, tags, End
Body(nBits, tags) ==
    <<nBits * 8 + 1>> \o [i \in 1..numberOfBytes(nBits) |-> 170]
    \o <<0, 24>> \o <<1, 0>> \o Concat(tags) \o EndTag

Signatures == { NO_COMPRESSION, ZLIB_COMPRESSION, LZMA_COMPRESSION, <<88, 87, 83>> }

\* a file with the given signature; cut > 0 removes bytes from its end (for a
\* compressed body: the Adler-32 trailer and then cut bytes)
MakeFile(sig, nBits, tags, cut) ==
    LET body == Body(nBits, tags)
        stored == IF sig = ZLIB_COMPRESSION THEN ZlibEncode(body) ELSE body
        k == IF cut = 0 THEN 0 ELSE IF sig = ZLIB_COMPRESSION THEN cut + 4 ELSE cut
    IN sig \o <<10>> \o LE32(8 + Len(body)) \o Take(stored, Len(stored) - k)

\* files too short to hold a header, or a compressed body
ShortFiles == { <<>>, <<70, 87, 83, 10>>, ZLIB_COMPRESSION \o <<10>> \o LE32(8) }

(* ------------------------------------------------------------- state *)
VARIABLES
    file,        \* the bytes at pathToSwf
    origFile,    \* the bytes at pathToSwf when this run started
    runs,        \* how many times main has been started on the path
    inserted,    \* per finished run: how many telemetry tags it synthesized
    pc,          \* where main is
    err,         \* why main stopped early ("none" while it has not)
    swfHeader,   \* the SwfHeader read from the file
    swfFile,     \* what is left to read of the opened file
    streams,     \* what reader / writer are: "unset", "plain", "zlib", "nil"
    source,      \* every byte reader can hand out (the uncompressed body)
    reader,      \* the bytes reader has not handed out yet
    outFile,     \* the bytes of the temp file
    wbuf,        \* every byte handed to writer so far
    headerUncompressedLength,
    tagsRead,    \* the results of the peekTag calls, in order
    tagsWritten  \* the tags handed to writer, in order

vars == <<file, origFile, runs, inserted, pc, err, swfHeader, swfFile, streams, source,
          reader, outFile, wbuf, headerUncompressedLength, tagsRead, tagsWritten>>

NoHeader == [Signature |-> <<0, 0, 0>>, Version |-> 0, FileLength |-> 0]

\* the state of main's locals at its first line
StartOfMain ==
    /\ pc = "open"
    /\ err = "none"
    /\ swfHeader = NoHeader
    /\ swfFile = <<>>
    /\ streams = "unset"
    /\ source = <<>>
    /\ reader = <<>>
    /\ outFile = <<>>
    /\ wbuf = <<>>
    /\ headerUncompressedLength = 0
    /\ tagsRead = <<>>
    /\ tagsWritten = <<>>

Init ==
    /\ \/ \E sig \in Signatures, nBits \in 0..MaxNBits, tags \in TagLists, cut \in 0..MaxCut :
             file = MakeFile(sig, nBits, tags, cut)
       \/ file \in ShortFiles
    /\ origFile = file
    /\ runs = 1
    /\ inserted = <<>>
    /\ StartOfMain

compressionType == swfHeader.Signature

Fail(why) == pc' = "failed" /\ err' = why

(* ------------------------------------------------------------ actions *)
\* uint32 addition; every length of the model is far below 2^32, where it wraps
Add32(a, b) == a + b

\* binary.Write(outFile, LittleEndian, &swfHeader)
HeaderBytes(h) == h.Signature \o <<h.Version>> \o LE32(h.FileLength)

\* binary.Read(swfFile, LittleEndian, &swfHeader)
ParseHeader(b) ==
    [Signature |-> SubSeq(b, 1, 3), Version |-> b[4], FileLength |-> FromLE(SubSeq(b, 5, 8))]

\* a write of bytes at offset pos of a file (after Seek(pos, SEEK_SET))
WriteAt(f, pos, bytes) ==
    Take(f, pos) \o bytes \o Drop(f, pos + Len(bytes))

\* writer.Write(bytes): to outFile itself, or into the zlib writer, which
\* hands its output to outFile when it is closed
WriterWrite(bytes) ==
    /\ wbuf' = wbuf \o bytes
    /\ outFile' = IF streams = "plain" THEN outFile \o bytes ELSE outFile

\* which reader / writer the signature selects; "nil" when no branch of the
\* if / else-if chain is taken and both stay nil
SelectTreatsUnknownAsPlain(sig, rest) ==
    IF sig = ZLIB_COMPRESSION
    THEN IF ZlibHeaderOk(rest) THEN [streams |-> "zlib", source |-> ZlibInflate(rest)]
                               ELSE [streams |-> "zlib_error", source |-> <<>>]
    ELSE IF sig = LZMA_COMPRESSION THEN [streams |-> "lzma", source |-> <<>>]
    ELSE [streams |-> "plain", source |-> rest]

SelectLzmaFallsThrough(sig, rest) ==
    IF sig = NO_COMPRESSION THEN [streams |-> "plain", source |-> rest]
    ELSE IF sig = ZLIB_COMPRESSION
    THEN IF ZlibHeaderOk(rest) THEN [streams |-> "zlib", source |-> ZlibInflate(rest)]
                               ELSE [streams |-> "zlib_error", source |-> <<>>]
    ELSE [streams |-> "nil", source |-> <<>>]

Select(sig, rest) ==
    IF sig = NO_COMPRESSION THEN [streams |-> "plain", source |-> rest]
    ELSE IF sig = ZLIB_COMPRESSION
    THEN IF ZlibHeaderOk(rest) THEN [streams |-> "zlib", source |-> ZlibInflate(rest)]
                               ELSE [streams |-> "zlib_error", source |-> <<>>]
    ELSE IF sig = LZMA_COMPRESSION THEN [streams |-> "lzma", source |-> <<>>]
    ELSE [streams |-> "nil", source |-> <<>>]

\* os.Open(pathToSwf)
OpenSwf ==
    /\ pc = "open"
    /\ \E ok \in BOOLEAN :
          IF ok THEN /\ swfFile' = file
                     /\ pc' = "header"
                     /\ err' = err
                ELSE /\ Fail("open")
                     /\ swfFile' = swfFile
    /\ UNCHANGED <<file, origFile, runs, inserted, swfHeader, streams, source, reader,
                   outFile, wbuf, headerUncompressedLength, tagsRead, tagsWritten>>

\* binary.Read of the SwfHeader
ReadHeader ==
    /\ pc = "header"
    /\ IF Len(swfFile) >= 8
       THEN /\ swfHeader' = ParseHeader(Take(swfFile, 8))
            /\ pc' = "temp"
            /\ err' = err
       ELSE /\ Fail("read_header")
            /\ swfHeader' = swfHeader
    /\ swfFile' = Drop(swfFile, 8)
    /\ UNCHANGED <<file, origFile, runs, inserted, streams, source, reader, outFile, wbuf,
                   headerUncompressedLength, tagsRead, tagsWritten>>

\* ioutil.TempFile
CreateTemp ==
    /\ pc = "temp"
    /\ \E ok \in BOOLEAN :
          IF ok THEN pc' = "select" /\ err' = err
                ELSE Fail("temp_file")
    /\ UNCHANGED <<file, origFile, runs, inserted, swfHeader, swfFile, streams, source,
                   reader, outFile, wbuf, headerUncompressedLength, tagsRead, tagsWritten>>

\* the choice of reader and writer by compressionType
SelectCompression ==
    /\ pc = "select"
    /\ LET sel == Select(compressionType, swfFile)
       IN CASE sel.streams = "zlib_error" ->
                 /\ Fail("zlib_reader")
                 /\ UNCHANGED <<streams, source, reader>>
            [] sel.streams = "lzma" ->
                 /\ Fail("not_supported")
                 /\ UNCHANGED <<streams, source, reader>>
            [] OTHER ->
                 /\ streams' = sel.streams
                 /\ source' = sel.source
                 /\ reader' = sel.source
                 /\ pc' = "write_header"
                 /\ err' = err
    /\ UNCHANGED <<file, origFile, runs, inserted, swfHeader, swfFile, outFile, wbuf,
                   headerUncompressedLength, tagsRead, tagsWritten>>

\* the header goes to outFile itself, not through writer
WriteHeaderThroughWriter ==
    /\ pc = "write_header"
    /\ WriterWrite(HeaderBytes(swfHeader))
    /\ headerUncompressedLength' = Add32(headerUncompressedLength, 8)
    /\ pc' = "frame_size"
    /\ UNCHANGED <<file, origFile, runs, inserted, err, swfHeader, swfFile, streams, source,
                   reader, tagsRead, tagsWritten>>

WriteHeader ==
    /\ pc = "write_header"
    /\ outFile' = outFile \o HeaderBytes(swfHeader)
    /\ headerUncompressedLength' = Add32(headerUncompressedLength, 8)
    /\ pc' = "frame_size"
    /\ UNCHANGED <<file, origFile, runs, inserted, err, swfHeader, swfFile, streams, source,
                   reader, wbuf, tagsRead, tagsWritten>>

\* the RECT: its first byte, then numberOfBytes more.  With reader nil the
\* first read is a nil dereference and main panics.
CopyFrameSize ==
    /\ pc = "frame_size"
    /\ IF streams = "nil"
       THEN /\ Fail("nil_reader")
            /\ UNCHANGED <<reader, outFile, wbuf, headerUncompressedLength>>
       ELSE LET fs == BinaryRead(reader, 1)
                frameSize == fs.val[1]
                nBits == (frameSize % 256) \div 8
                fd == ReadFull(fs.rest, numberOfBytes(nBits))
            IN /\ reader' = fd.rest
               /\ WriterWrite(fs.val \o fd.val)
               /\ headerUncompressedLength' =
                      Add32(Add32(headerUncompressedLength, 1), numberOfBytes(nBits))
               /\ pc' = "frame_rate"
               /\ err' = err
    /\ UNCHANGED <<file, origFile, runs, inserted, swfHeader, swfFile, streams, source,
                   tagsRead, tagsWritten>>

\* frameRate and frameCount, 2 bytes each
CopyFrameRate ==
    /\ pc = "frame_rate"
    /\ LET frameRate == BinaryRead(reader, 2)
           frameCount == BinaryRead(frameRate.rest, 2)
       IN /\ reader' = frameCount.rest
          /\ WriterWrite(frameRate.val \o frameCount.val)
          /\ headerUncompressedLength' = Add32(Add32(headerUncompressedLength, 2), 2)
    /\ pc' = "scan"
    /\ UNCHANGED <<file, origFile, runs, inserted, err, swfHeader, swfFile, streams, source,
                   tagsRead, tagsWritten>>

\* a peekTag result as logged: where in source it began and who asked for it
Logged(t, via, before) ==
    [tagType |-> t.tagType, tagData |-> t.tagData, ok |-> t.ok, via |-> via,
     at |-> Len(source) - Len(before)]

\* the writes of one loop iteration: to writer, to the log, to the counter
Emit(tags) ==
    /\ WriterWrite(Flatten(tags))
    /\ tagsWritten' = tagsWritten \o tags
    /\ headerUncompressedLength' =
          Add32(headerUncompressedLength,
                Len(Flatten(SelectSeq(tags, LAMBDA c : ~c.synth)))
                + Len(SelectSeq(tags, LAMBDA c : c.synth)) * writeTelemetryTag.count)

\* one iteration of the for loop
ScanTag ==
    /\ pc = "scan"
    /\ LET t == peekTag(reader)
           branch == Dispatch(t.tagType)
       IN CASE branch = "telemetry" ->
                 /\ Fail("already_enabled")
                 /\ reader' = t.rest
                 /\ tagsRead' = Append(tagsRead, Logged(t, "scan", reader))
                 /\ UNCHANGED <<outFile, wbuf, headerUncompressedLength, tagsWritten>>
            [] branch = "signed" ->
                 /\ Fail("signed_swf")
                 /\ reader' = t.rest
                 /\ tagsRead' = Append(tagsRead, Logged(t, "scan", reader))
                 /\ UNCHANGED <<outFile, wbuf, headerUncompressedLength, tagsWritten>>
            [] branch = "file_attributes" ->
                 LET n == peekTag(t.rest)
                 IN /\ reader' = n.rest
                    /\ tagsRead' = tagsRead \o <<Logged(t, "scan", reader),
                                                 Logged(n, "lookahead", t.rest)>>
                    /\ Emit(FileAttributesWrites(t.tagData, n.tagType, n.tagData))
                    /\ pc' = "scan"
                    /\ err' = err
            [] branch = "end" ->
                 /\ reader' = t.rest
                 /\ tagsRead' = Append(tagsRead, Logged(t, "scan", reader))
                 /\ Emit(<<Copied(t.tagType, t.tagData)>>)
                 /\ pc' = "close"
                 /\ err' = err
            [] OTHER ->
                 /\ reader' = t.rest
                 /\ tagsRead' = Append(tagsRead, Logged(t, "scan", reader))
                 /\ Emit(<<Copied(t.tagType, t.tagData)>>)
                 /\ pc' = "scan"
                 /\ err' = err
    /\ UNCHANGED <<file, origFile, runs, inserted, swfHeader, swfFile, streams, source>>

\* writer.Close() when compressionType != NO_COMPRESSION
CloseWriterWhenPlain ==
    /\ pc = "close"
    /\ outFile' = IF compressionType = NO_COMPRESSION
                  THEN outFile \o ZlibEncode(wbuf) ELSE outFile
    /\ pc' = "patch"
    /\ UNCHANGED <<file, origFile, runs, inserted, err, swfHeader, swfFile, streams, source,
                   reader, wbuf, headerUncompressedLength, tagsRead, tagsWritten>>

CloseWriter ==
    /\ pc = "close"
    /\ outFile' = IF compressionType # NO_COMPRESSION
                  THEN outFile \o ZlibEncode(wbuf) ELSE outFile
    /\ pc' = "patch"
    /\ UNCHANGED <<file, origFile, runs, inserted, err, swfHeader, swfFile, streams, source,
                   reader, wbuf, headerUncompressedLength, tagsRead, tagsWritten>>

\* outFile.Seek(4), then the counter as a little-endian uint32
PatchLength ==
    /\ pc = "patch"
    /\ \E ok \in BOOLEAN :
          IF ok THEN /\ outFile' = WriteAt(outFile, 4, LE32(headerUncompressedLength))
                     /\ pc' = "stat"
                     /\ err' = err
                ELSE /\ Fail("seek")
                     /\ outFile' = outFile
    /\ UNCHANGED <<file, origFile, runs, inserted, swfHeader, swfFile, streams, source,
                   reader, wbuf, headerUncompressedLength, tagsRead, tagsWritten>>

\* swfFile.Stat()
StatSwf ==
    /\ pc = "stat"
    /\ \E ok \in BOOLEAN :
          IF ok THEN pc' = "chmod" /\ err' = err
                ELSE Fail("stat")
    /\ UNCHANGED <<file, origFile, runs, inserted, swfHeader, swfFile, streams, source,
                   reader, outFile, wbuf, headerUncompressedLength, tagsRead, tagsWritten>>

\* outFile.Chmod
ChmodOut ==
    /\ pc = "chmod"
    /\ \E ok \in BOOLEAN :
          IF ok THEN pc' = "rename" /\ err' = err
                ELSE Fail("chmod")
    /\ UNCHANGED <<file, origFile, runs, inserted, swfHeader, swfFile, streams, source,
                   reader, outFile, wbuf, headerUncompressedLength, tagsRead, tagsWritten>>

\* os.Rename(outFile.Name(), pathToSwf): the path now names the temp file
Rename ==
    /\ pc = "rename"
    /\ \E ok \in BOOLEAN :
          IF ok THEN /\ file' = outFile
                     /\ pc' = "done"
                     /\ err' = err
                ELSE /\ Fail("rename")
                     /\ file' = file
    /\ UNCHANGED <<origFile, runs, inserted, swfHeader, swfFile, streams, source, reader,
                   outFile, wbuf, headerUncompressedLength, tagsRead, tagsWritten>>

\* the tool is started again on the same path, after a run that replaced it
RunAgain ==
    /\ pc = "done"
    /\ runs < MaxRuns
    /\ runs' = runs + 1
    /\ inserted' = Append(inserted, Len(SelectSeq(tagsWritten, LAMBDA c : c.synth)))
    /\ origFile' = file
    /\ file' = file
    /\ pc' = "open"
    /\ err' = "none"
    /\ swfHeader' = NoHeader
    /\ swfFile' = <<>>
    /\ streams' = "unset"
    /\ source' = <<>>
    /\ reader' = <<>>
    /\ outFile' = <<>>
    /\ wbuf' = <<>>
    /\ headerUncompressedLength' = 0
    /\ tagsRead' = <<>>
    /\ tagsWritten' = <<>>

Next ==
    \/ OpenSwf
    \/ ReadHeader
    \/ CreateTemp
    \/ SelectCompression
    \/ WriteHeader
    \/ CopyFrameSize
    \/ CopyFrameRate
    \/ ScanTag
    \/ CloseWriter
    \/ PatchLength
    \/ StatSwf
    \/ ChmodOut
    \/ Rename
    \/ RunAgain

Spec == Init /\ [][Next]_vars

\* tags of the inputs of LoopSpec: an anchor, a tag that panics, a long tag
LoopTagKinds ==
    { ShortTag(TAG_FILE_ATTRIBUTES, <<8>>),
      ShortTag(TAG_TELEMETRY, <<0, 0>>),
      LongTag(9, <<7>>) }

LoopTagLists == UNION { [1..n -> LoopTagKinds] : n \in 0..MaxLoopTags }

\* files with a supported signature: whole, cut short, or without End tag
LoopInit ==
    /\ \E sig \in {NO_COMPRESSION, ZLIB_COMPRESSION}, tags \in LoopTagLists, cut \in 0..MaxCut :
          file = MakeFile(sig, 0, tags, cut)
    /\ origFile = file
    /\ runs = 1
    /\ inserted = <<>>
    /\ StartOfMain

\* main has a statement left to run: it has not panicked and not returned
\* from its last run (the states in which Next is enabled)
Running == ~(pc = "failed" \/ (pc = "done" /\ runs >= MaxRuns))

\* main is one sequential process: whenever a statement can run, it runs.
\* This is WF_vars(Next) with ENABLED <<Next>>_vars written as Running.
LoopFairness == []<>(~Running) \/ []<><<Next>>_vars

LoopSpec == LoopInit /\ [][Next]_vars /\ LoopFairness

(* ------------------------------------------- the input, read by the format *)
\* The tags of a byte string by the wire format alone (short / long framing),
\* with no reference to what peekTag does on a short read: each whole tag with
\* its type and bytes, and a last entry with whole = FALSE for bytes that do not
\* make up a tag.
RECURSIVE WireTags(_)
WireTags(b) ==
    IF b = <<>> THEN <<>>
    ELSE LET word == IF Len(b) >= 2 THEN b[1] + 256 * b[2] ELSE 0
             long == Len(b) >= 2 /\ word % 64 = 63
             head == IF long THEN 6 ELSE 2
             size == IF Len(b) < head THEN Len(b) + 1
                     ELSE IF long THEN head + FromLE(SubSeq(b, 3, 6))
                     ELSE head + (word % 64)
         IN IF Len(b) < size
            THEN <<[tagType |-> word \div 64, tagData |-> b, whole |-> FALSE]>>
            ELSE <<[tagType |-> word \div 64, tagData |-> Take(b, size), whole |-> TRUE]>>
                 \o WireTags(Drop(b, size))

\* bytes of the body before the first tag: RECT, frame rate, frame count
PrefaceLen(b) == IF b = <<>> THEN 5 ELSE 1 + numberOfBytes(b[1] \div 8) + 4

InputTags == WireTags(Drop(source, PrefaceLen(source)))

HasTag(tags, tagType) == \E i \in 1..Len(tags) : tags[i].whole /\ tags[i].tagType = tagType

\* reader and writer are set: the input is one main goes on to parse
Parsing == streams \in {"plain", "zlib"}

\* whole tags only, one End tag, and it is the last
EndTerminatedInput ==
    /\ Parsing
    /\ Len(source) >= PrefaceLen(source)
    /\ InputTags # <<>>
    /\ \A i \in 1..Len(InputTags) :
          /\ InputTags[i].whole
          /\ (InputTags[i].tagType = TAG_END) <=> (i = Len(InputTags))

\* the input ends inside the preface or inside a tag, or has no End tag
TruncatedInput ==
    /\ Parsing
    /\ \/ Len(source) < PrefaceLen(source)
       \/ \E i \in 1..Len(InputTags) : ~InputTags[i].whole
       \/ ~HasTag(InputTags, TAG_END)

\* main is past the for loop
Scanned == pc \in {"close", "patch", "stat", "chmod", "rename", "done"}

\* the header and the uncompressed body of a file
Uncompressed(f) ==
    Take(f, 8) \o (IF Take(f, 3) = ZLIB_COMPRESSION THEN ZlibInflate(Drop(f, 8)) ELSE Drop(f, 8))

\* the wire form of the EnableTelemetry tag: uint16 (93 << 6) | 2, two zero bytes
TelemetryWire == <<66, 23, 0, 0>>

SynthCount(tags) == Len(SelectSeq(tags, LAMBDA c : c.synth))

Copies == SelectSeq(tagsWritten, LAMBDA c : ~c.synth)

\* how many of the first j written tags are copies
CopyRank(j) == Len(SelectSeq(SubSeq(tagsWritten, 1, j), LAMBDA c : ~c.synth))

\* The output body is the preface followed by the written tags in order; the
\* copied tags are the tags read, in reading order (all of them, or all but the
\* last when that one stopped main); a tag read whole is the input's bytes.
WritesFollowReads ==
    /\ Parsing /\ pc \notin {"write_header", "frame_size", "frame_rate"} =>
          wbuf = Take(wbuf, Len(wbuf) - Len(Flatten(tagsWritten))) \o Flatten(tagsWritten)
    /\ Len(Copies) <= Len(tagsRead)
    /\ Len(Copies) >= Len(tagsRead) - 1
    /\ \A k \in 1..Len(Copies) :
          /\ Copies[k].tagType = tagsRead[k].tagType
          /\ Copies[k].tagData = tagsRead[k].tagData
    /\ \A i \in 1..Len(tagsRead) :
          tagsRead[i].ok =>
             tagsRead[i].tagData =
                SubSeq(source, tagsRead[i].at + 1, tagsRead[i].at + Len(tagsRead[i].tagData))

\* tagsRead[i] is a FileAttributes tag read by the main scan (its lookahead is
\* tagsRead[i + 1])
Anchor(i) ==
    /\ i \in 1..(Len(tagsRead) - 1)
    /\ tagsRead[i].via = "scan"
    /\ tagsRead[i].tagType = TAG_FILE_ATTRIBUTES

(* ------------------------------------------------------------- claims *)
\* C1: when a FileAttributes tag read by the scan is directly followed by a
\* Metadata tag, the output holds that FileAttributes tag, that Metadata tag and
\* the synthesized EnableTelemetry tag, consecutively and in that order, and
\* all copied tags are in their input order.
Thm_C1_MetadataThenTelemetry ==
    /\ WritesFollowReads
    /\ \A i \in 1..Len(tagsRead) :
          (Anchor(i) /\ tagsRead[i + 1].tagType = TAG_META) =>
             \E j \in 1..(Len(tagsWritten) - 2) :
                /\ ~tagsWritten[j].synth
                /\ CopyRank(j) = i
                /\ tagsWritten[j] = Copied(TAG_FILE_ATTRIBUTES, tagsRead[i].tagData)
                /\ tagsWritten[j + 1] = Copied(TAG_META, tagsRead[i + 1].tagData)
                /\ tagsWritten[j + 2] =
                      [tagType |-> TAG_TELEMETRY, tagData |-> TelemetryWire, synth |-> TRUE]

\* a finished run that read another tag, then FileAttributes, Metadata, and more
Wit_C1_MetadataThenTelemetry ==
    /\ pc = "done"
    /\ \E i \in 2..(Len(tagsRead) - 2) :
          /\ Anchor(i)
          /\ tagsRead[i + 1].tagType = TAG_META
          /\ tagsRead[i + 1].ok

\* C2: when a FileAttributes tag read by the scan is followed by a tag X that
\* is not Metadata, the output holds that FileAttributes tag, the synthesized
\* EnableTelemetry tag and X, consecutively and in that order, X with the bytes
\* it has in the input.
Thm_C2_TelemetryThenNext ==
    /\ WritesFollowReads
    /\ \A i \in 1..Len(tagsRead) :
          (Anchor(i) /\ tagsRead[i + 1].tagType # TAG_META) =>
             \E j \in 1..(Len(tagsWritten) - 2) :
                /\ ~tagsWritten[j].synth
                /\ CopyRank(j) = i
                /\ tagsWritten[j] = Copied(TAG_FILE_ATTRIBUTES, tagsRead[i].tagData)
                /\ tagsWritten[j + 1] =
                      [tagType |-> TAG_TELEMETRY, tagData |-> TelemetryWire, synth |-> TRUE]
                /\ tagsWritten[j + 2] = Copied(tagsRead[i + 1].tagType, tagsRead[i + 1].tagData)
                /\ tagsRead[i + 1].ok =>
                      tagsWritten[j + 2].tagData =
                         SubSeq(source, tagsRead[i + 1].at + 1,
                                tagsRead[i + 1].at + Len(tagsRead[i + 1].tagData))

\* a finished run that read FileAttributes and then a whole long tag
Wit_C2_TelemetryThenNext ==
    /\ pc = "done"
    /\ \E i \in 1..(Len(tagsRead) - 2) :
          /\ Anchor(i)
          /\ tagsRead[i + 1].tagType = 9
          /\ tagsRead[i + 1].ok

\* main stopped because the operating system refused a step
StoppedByOS == pc = "failed" /\ err \in {"open", "temp_file", "seek", "stat", "chmod", "rename"}

\* this run works on the output of a run that synthesized a telemetry tag
RunsOnRewritten == runs >= 2 /\ inserted[runs - 1] > 0

\* C3 (as claimed): a run on the output of a run that inserted the telemetry tag
\* never gets past the scan, synthesizes no telemetry tag that reaches the
\* file, and when it stops for a reason of its own the reason is the
\* already-enabled panic.
CE_C3_SecondRunRefused ==
    RunsOnRewritten =>
       /\ ~Scanned
       /\ (pc = "failed" /\ ~StoppedByOS) => err = "already_enabled"

\* C4 (as claimed): once the scan is over the output holds exactly one End tag,
\* it is the last tag written, and no tag was read after an End tag that the
\* input holds.
CE_C4_OneEndLast ==
    Scanned =>
       /\ Len(SelectSeq(tagsWritten, LAMBDA c : c.tagType = TAG_END)) = 1
       /\ tagsWritten[Len(tagsWritten)].tagType = TAG_END
       /\ \A i \in 1..(Len(tagsRead) - 1) :
             ~(tagsRead[i].ok /\ tagsRead[i].tagType = TAG_END)

\* C5 (as claimed): an end-terminated input that holds a signed-container tag
\* before its End tag is never scanned to the end.
CE_C5_SignedRefused ==
    (EndTerminatedInput /\ HasTag(InputTags, TAG_SIGNED_SWF)) => ~Scanned

\* C6: a finished run on an end-terminated input without a FileAttributes tag
\* leaves the uncompressed bytes as they were, bytes 4-7 aside, synthesizes no
\* telemetry tag and reports no error.
Thm_C6_NoAnchorRoundTrip ==
    (pc = "done" /\ EndTerminatedInput /\ ~HasTag(InputTags, TAG_FILE_ATTRIBUTES)) =>
       /\ Take(Uncompressed(file), 4) = Take(Uncompressed(origFile), 4)
       /\ Drop(Uncompressed(file), 8) = Drop(Uncompressed(origFile), 8)
       /\ Len(Uncompressed(file)) = Len(Uncompressed(origFile))
       /\ SynthCount(tagsWritten) = 0
       /\ err = "none"

\* a finished run on a compressed input with a long tag and no FileAttributes
Wit_C6_NoAnchorRoundTrip ==
    /\ pc = "done"
    /\ EndTerminatedInput
    /\ ~HasTag(InputTags, TAG_FILE_ATTRIBUTES)
    /\ HasTag(InputTags, 9)
    /\ Len(InputTags) = 3
    /\ compressionType = ZLIB_COMPRESSION

\* the length field of a file's header
DeclaredLength(f) == FromLE(SubSeq(f, 5, 8))

\* C7: between steps the counter is the number of uncompressed bytes emitted
\* (the header, once written, plus every byte handed to writer), and the value
\* in bytes 4-7 of a finished file is its uncompressed length.
Thm_C7_CounterIsEmitted ==
    /\ headerUncompressedLength = Len(Take(outFile, 8)) + Len(wbuf)
    /\ pc \in {"stat", "chmod", "rename", "done"} =>
          DeclaredLength(outFile) = Len(Uncompressed(outFile))
    /\ pc = "done" => DeclaredLength(file) = Len(Uncompressed(file))

\* a finished compressed run that synthesized a telemetry tag
Wit_C7_CounterIsEmitted ==
    /\ pc = "done"
    /\ SynthCount(tagsWritten) = 1
    /\ compressionType = ZLIB_COMPRESSION
    /\ DeclaredLength(file) = DeclaredLength(origFile) + 4

\* C8 (as claimed): a read of a tag that comes up short stops main, and a
\* truncated input is never rewritten to completion.
CE_C8_TruncatedRefused ==
    /\ (\E i \in 1..Len(tagsRead) : ~tagsRead[i].ok) => pc = "failed"
    /\ TruncatedInput => pc # "done"

\* C9 (as claimed): the path is replaced only after the End tag was copied, the
\* writer closed and the length patched; and a run on an input of a failing
\* class, or one that failed, leaves the file as it was.
CE_C9_ReplaceOnlyOnSuccess ==
    /\ file # origFile =>
          /\ pc = "done"
          /\ tagsWritten # <<>>
          /\ tagsWritten[Len(tagsWritten)].tagType = TAG_END
          /\ DeclaredLength(file) = headerUncompressedLength
          /\ Drop(Uncompressed(file), 8) = wbuf
    /\ pc = "failed" => file = origFile
    /\ TruncatedInput => file = origFile

\* the header was read and its signature is none of the three known ones
BadSignature ==
    /\ swfHeader # NoHeader
    /\ compressionType \notin {NO_COMPRESSION, ZLIB_COMPRESSION, LZMA_COMPRESSION}

\* C10: with a signature that is none of FWS, CWS, ZWS main never gets past its
\* first read of the body, where it stops (the nil reader); nothing but the
\* header was consumed, no tag was read, nothing went to writer, and the file
\* at the path is as it was.
Thm_C10_BadSignatureStops ==
    BadSignature =>
       /\ pc \in {"temp", "select", "write_header", "frame_size", "failed"}
       /\ pc = "failed" => err \in {"temp_file", "nil_reader"}
       /\ swfFile = Drop(origFile, 8)
       /\ reader = <<>> /\ tagsRead = <<>> /\ tagsWritten = <<>> /\ wbuf = <<>>
       /\ file = origFile

\* main stopped at the first read of the body of a file with a bad signature
Wit_C10_BadSignatureStops ==
    /\ BadSignature
    /\ pc = "failed"
    /\ err = "nil_reader"
    /\ Len(swfFile) > 5

\* the header was read and its signature is "ZWS"
LzmaSignature == swfHeader # NoHeader /\ compressionType = LZMA_COMPRESSION

\* C11: with the signature "ZWS" main stops at the choice of reader and writer
\* ("Not supported yet"): nothing but the header was consumed from the file, no
\* tag was read, not one byte went to the temp file or to writer, and the file
\* at the path is as it was.
Thm_C11_LzmaStops ==
    LzmaSignature =>
       /\ pc \in {"temp", "select", "failed"}
       /\ pc = "failed" => err \in {"temp_file", "not_supported"}
       /\ swfFile = Drop(origFile, 8)
       /\ streams = "unset" /\ reader = <<>> /\ tagsRead = <<>>
       /\ outFile = <<>> /\ wbuf = <<>> /\ tagsWritten = <<>>
       /\ headerUncompressedLength = 0
       /\ file = origFile

\* main stopped on a "ZWS" file that holds a body
Wit_C11_LzmaStops ==
    /\ LzmaSignature
    /\ pc = "failed"
    /\ err = "not_supported"
    /\ Len(swfFile) > 5

\* tagsRead[i] is, byte for byte, what the input holds where it was read
ReadIsInput(i) ==
    /\ tagsRead[i].at + Len(tagsRead[i].tagData) <= Len(source)
    /\ tagsRead[i].tagData =
          SubSeq(source, tagsRead[i].at + 1, tagsRead[i].at + Len(tagsRead[i].tagData))

\* C12 (as claimed): once the scan is over, every tag read (by the scan or as
\* lookahead) was written exactly once, in reading order, with the bytes it has
\* in the input, and the output body without the synthesized telemetry tags is
\* a copy of input bytes.
CE_C12_OnlyInputBytesCopied ==
    Scanned =>
       /\ Len(Copies) = Len(tagsRead)
       /\ \A k \in 1..Len(Copies) : Copies[k].tagData = tagsRead[k].tagData
       /\ \A i \in 1..Len(tagsRead) : ReadIsInput(i)
       /\ wbuf = Take(source, PrefaceLen(source)) \o Flatten(tagsWritten)
       /\ PrefaceLen(source) + Len(Flatten(Copies)) <= Len(source)
       /\ Flatten(Copies) =
             SubSeq(source, PrefaceLen(source) + 1, PrefaceLen(source) + Len(Flatten(Copies)))

(* ------------------------------------------------- the RECT, every NBits *)
\* bytes of a RECT by its layout: NBits UB[5] and four SB[NBits] fields, bit
\* packed, rounded up to whole bytes
RectBytes(nBits) == (5 + 4 * nBits + 7) \div 8

\* a whole file with no tag but End whose RECT begins with the byte frameSize
\* (NBits in its top 5 bits) and is as long as the layout says
RectFile(sig, frameSize) ==
    LET body == <<frameSize>> \o [i \in 1..(RectBytes(frameSize \div 8) - 1) |-> 170]
                \o <<0, 24>> \o <<1, 0>> \o EndTag
    IN sig \o <<10>> \o LE32(8 + Len(body))
       \o (IF sig = ZLIB_COMPRESSION THEN ZlibEncode(body) ELSE body)

RectInit ==
    /\ \E sig \in {NO_COMPRESSION, ZLIB_COMPRESSION}, frameSize \in 0..255 :
          file = RectFile(sig, frameSize)
    /\ origFile = file
    /\ runs = 1
    /\ inserted = <<>>
    /\ StartOfMain

\* main on files with every first RECT byte, NBits 0..31
RectSpec == RectInit /\ [][Next]_vars

\* C13: for every NBits in 0..31 the first byte and the numberOfBytes bytes read
\* after it are exactly the RECT, 5 + 4 * NBits bits rounded up to whole bytes:
\* that many bytes were consumed and copied, the frame rate and frame count come
\* next, and the count is 0 for NBits = 0 and 4 for NBits = 8.
Thm_C13_RectByteCount ==
    (Parsing /\ pc = "frame_rate") =>
       LET nBits == source[1] \div 8
       IN /\ nBits \in 0..31
          /\ 1 + numberOfBytes(nBits) = RectBytes(nBits)
          /\ Len(source) - Len(reader) = RectBytes(nBits)
          /\ wbuf = Take(source, RectBytes(nBits))
          /\ headerUncompressedLength = 8 + RectBytes(nBits)
          /\ Take(reader, 4) = <<0, 24, 1, 0>>
          /\ nBits = 0 => Len(wbuf) - 1 = 0
          /\ nBits = 8 => Len(wbuf) - 1 = 4

\* the RECT of a file with NBits = 31 was copied: 1 + 16 bytes
Wit_C13_RectByteCount ==
    /\ Parsing
    /\ pc = "frame_rate"
    /\ source[1] \div 8 = 31
    /\ Len(wbuf) = 17

\* C14: the step that patches the length field is taken only when the last tag
\* the scan read and wrote is an End tag and, for a compressed file, the zlib
\* stream of every byte handed to writer is in the temp file (the writer was
\* closed); it overwrites bytes 4-7 with the counter and nothing else; no other
\* step changes these bytes, and after the patch the temp file and the bytes
\* handed to writer do not change any more.
Thm_C14_PatchAfterScanAndClose ==
    [][ /\ (pc = "patch" /\ pc' = "stat") =>
              /\ outFile' = WriteAt(outFile, 4, LE32(headerUncompressedLength))
              /\ Len(outFile') = Len(outFile)
              /\ tagsRead # <<>>
              /\ tagsRead[Len(tagsRead)].via = "scan"
              /\ tagsRead[Len(tagsRead)].tagType = TAG_END
              /\ tagsWritten[Len(tagsWritten)] =
                    Copied(TAG_END, tagsRead[Len(tagsRead)].tagData)
              /\ compressionType = ZLIB_COMPRESSION => Drop(outFile, 8) = ZlibEncode(wbuf)
              /\ compressionType = NO_COMPRESSION => Drop(outFile, 8) = wbuf
        /\ (Len(outFile) >= 8 /\ Len(outFile') >= 8
              /\ SubSeq(outFile', 5, 8) # SubSeq(outFile, 5, 8)) => pc = "patch"
        /\ pc \in {"stat", "chmod", "rename"} => (outFile' = outFile /\ wbuf' = wbuf)
      ]_vars

\* the length field of a compressed temp file was patched to a new value
Wit_C14_PatchAfterScanAndClose ==
    /\ pc = "stat"
    /\ compressionType = ZLIB_COMPRESSION
    /\ DeclaredLength(outFile) = headerUncompressedLength
    /\ DeclaredLength(outFile) # swfHeader.FileLength

\* main is past the header write and before the patch / past the patch
HeaderWritten == pc \in {"frame_size", "frame_rate", "scan", "close", "patch"}

LengthPatched == pc \in {"stat", "chmod", "rename", "done"}

\* C15: the 8 header bytes are in the temp file itself before any byte goes to
\* writer and are not part of what writer receives (for a compressed file the
\* temp file holds just the raw header until the writer is closed); until the
\* patch they are the input's header, afterwards bytes 0-3 still are and bytes
\* 4-7 are the counter; a replaced file begins with the signature and version
\* of the file it replaces.
Thm_C15_HeaderRawAndKept ==
    /\ wbuf # <<>> => Len(outFile) >= 8
    /\ HeaderWritten => Take(outFile, 8) = Take(origFile, 8)
    /\ (HeaderWritten /\ compressionType = ZLIB_COMPRESSION /\ pc # "patch") =>
          outFile = Take(origFile, 8)
    /\ (pc = "patch" \/ LengthPatched) /\ Parsing =>
          Uncompressed(outFile) = Take(outFile, 8) \o wbuf
    /\ LengthPatched =>
          /\ Take(outFile, 4) = Take(origFile, 4)
          /\ SubSeq(outFile, 5, 8) = LE32(headerUncompressedLength)
    /\ pc = "done" => Take(file, 4) = Take(origFile, 4)

\* a compressed file was replaced and only its length field differs in the header
Wit_C15_HeaderRawAndKept ==
    /\ pc = "done"
    /\ compressionType = ZLIB_COMPRESSION
    /\ Take(file, 4) = Take(origFile, 4)
    /\ SubSeq(file, 5, 8) # SubSeq(origFile, 5, 8)

RECURSIVE SumLen(_)
SumLen(tags) == IF tags = <<>> THEN 0 ELSE Len(Head(tags).tagData) + SumLen(Tail(tags))

\* C16: every synthesized telemetry tag written is the 4 bytes of the short
\* form, the uint16 (93 << 6) | 2 little-endian and two zero bytes (its low 6
\* bits are 2, not 0x3f), and each adds exactly 4 to the counter: the counter
\* is the header, the preface and the copied tags plus 4 per telemetry tag.
Thm_C16_TelemetryIsFourBytes ==
    /\ \A j \in 1..Len(tagsWritten) :
          tagsWritten[j].synth =>
             /\ tagsWritten[j].tagType = TAG_TELEMETRY
             /\ Len(tagsWritten[j].tagData) = 4
             /\ FromLE(SubSeq(tagsWritten[j].tagData, 1, 2)) = TAG_TELEMETRY * 64 + 2
             /\ FromLE(SubSeq(tagsWritten[j].tagData, 1, 2)) % 64 # 63
             /\ SubSeq(tagsWritten[j].tagData, 3, 4) = <<0, 0>>
    /\ tagsWritten # <<>> =>
          headerUncompressedLength =
             8 + (Len(wbuf) - Len(Flatten(tagsWritten))) + SumLen(Copies)
               + 4 * SynthCount(tagsWritten)

\* a run stopped on a telemetry tag of the input right after it had written its
\* own (FileAttributes, Metadata, telemetry in the input)
Wit_C16_TelemetryIsFourBytes ==
    /\ pc = "failed"
    /\ err = "already_enabled"
    /\ SynthCount(tagsWritten) = 1
    /\ tagsWritten[Len(tagsWritten)].synth

\* the FileAttributes tags the main scan read (not those read as lookahead)
AnchorsRead ==
    Len(SelectSeq(tagsRead, LAMBDA r : r.via = "scan" /\ r.tagType = TAG_FILE_ATTRIBUTES))

\* C17 (as claimed): a finished run synthesized exactly one telemetry tag when
\* the input holds a FileAttributes tag and none otherwise.
CE_C17_AtMostOneTelemetry ==
    (pc = "done" /\ EndTerminatedInput) =>
       SynthCount(tagsWritten) =
          (IF HasTag(InputTags, TAG_FILE_ATTRIBUTES) THEN 1 ELSE 0)

\* C17 (amended): one telemetry tag is synthesized for each FileAttributes tag
\* the main scan reads, and none for a FileAttributes tag read as the lookahead
\* of another; so none when the input holds no FileAttributes tag (whole or
\* cut short), and at least one when a finished run's end-terminated input
\* holds one.
Thm_C17_OneTelemetryPerAnchor ==
    /\ SynthCount(tagsWritten) = AnchorsRead
    /\ (Parsing /\ \A i \in 1..Len(InputTags) : InputTags[i].tagType # TAG_FILE_ATTRIBUTES) =>
          SynthCount(tagsWritten) = 0
    /\ (pc = "done" /\ EndTerminatedInput /\ HasTag(InputTags, TAG_FILE_ATTRIBUTES)) =>
          SynthCount(tagsWritten) >= 1

\* a finished run on FileAttributes, X, FileAttributes, End wrote two
Wit_C17_OneTelemetryPerAnchor ==
    /\ pc = "done"
    /\ EndTerminatedInput
    /\ AnchorsRead = 2
    /\ SynthCount(tagsWritten) = 2

\* ---- C18 ----
\* C18: for every finite input with a supported signature the for loop
\* terminates. Every iteration that goes round again has taken at least one
\* byte from reader, an iteration on an exhausted reader leaves the loop, and
\* a run that is in the loop eventually leaves it, through the End branch
\* (to writer.Close) or through a panic; it never reads tags forever.
Thm_C18_ScanLoopTerminates ==
    /\ [][(pc = "scan" /\ pc' = "scan") => Len(reader') < Len(reader)]_vars
    /\ [][(pc = "scan" /\ reader = <<>>) => pc' = "close"]_vars
    /\ [](pc = "scan" => <>(pc \in {"close", "failed"}))

\* the loop was left through the End branch although the input has no
\* whole End tag: the exhausted reader gave the tag that ended it
Wit_C18_ScanLoopTerminates ==
    /\ pc = "close"
    /\ TruncatedInput
    /\ ~HasTag(InputTags, TAG_END)
    /\ reader = <<>>
    /\ Len(tagsRead) >= 2

====
